---------------------------- MODULE Spec2Model ----------------------------
(***************************************************************************)
(* A state-machine model of src/libANGLE/renderer/vulkan/CommandProcessor  *)
(* .cpp: the producers' facade (queueCommand, finishToSerial, shutdown,    *)
(* handleDeviceLost, ...), the worker loop (processTasks /                 *)
(* processTasksImpl), the task handlers (processTask) and the              *)
(* TaskProcessor's in-flight list, garbage queue and completion sweep.     *)
(*                                                                         *)
(* One task is in execution at a time: by the worker thread in async mode, *)
(* by the producer inside queueCommand in sync mode.  The handler position *)
(* is epc; a state with epc at a GPU call site is a state in which that    *)
(* call is in progress.  Asserts are compiled out (release build):         *)
(* UNREACHABLE() and ASSERT() do not stop the program, but the model keeps *)
(* what the assertion of TaskProcessor::destroy would have seen.           *)
(***************************************************************************)
EXTENDS Integers, Sequences, FiniteSets, TLC

\* kInFlightCommandsLimit is 100u in the source (line 18); the model scales it
\* down so that the throttle of submitFrame is reached within MaxTasks tasks.
kInFlightCommandsLimit == 1
\* Total number of queueCommand calls over all producers.
MaxTasks == 2
\* Total number of injected failures (Vulkan error results, device-loss reports).
MaxFaults == 2
\* Serial::Infinite(): larger than every serial the factory hands out.
Infinite == 99

Producers == {"p1", "p2"}
MainContext == "p1"
Worker == "worker"
NoThread == "none"
Priorities == {0, 1}

SubmitCmds == {"FlushAndQueueSubmit", "OneOffQueueSubmit"}
SubmitErrors == {"VK_ERROR_DEVICE_LOST", "VK_ERROR_OUT_OF_HOST_MEMORY"}
WaitErrors == {"VK_ERROR_DEVICE_LOST", "VK_TIMEOUT"}
PresentResults == {"VK_SUCCESS", "VK_SUBOPTIMAL_KHR", "VK_ERROR_OUT_OF_DATE_KHR",
                   "VK_ERROR_DEVICE_LOST", "VK_ERROR_SURFACE_LOST_KHR"}

VARIABLES
    async,          \* features.asynchronousCommandProcessing.enabled
    mTasks,         \* the task queue
    mWorkerThreadIdle,
    mWorkerMutex,   \* owner of mWorkerMutex, or NoThread
    mInFlightCommandsMutex,
    idleWaiters,    \* threads blocked on mWorkerIdleCondition, not yet notified
    lastSubmitted,  \* mCommandProcessorLastSubmittedSerial
    currentSerial,  \* mCommandProcessorCurrentQueueSerial
    factoryNext,    \* next value of mQueueSerialFactory.generate()
    mInFlightCommands,
    mGarbageQueue,
    mErrors,
    delivered,      \* the errors handed to the contexts, in order
    workerError,    \* what the last getAndClearPendingError returned
    mSwapchainStatus,
    mPrimaryCommandBuffer,  \* "invalid" (no handle) | "recording" | "ended"
    lastCompleted,  \* RendererVk's last completed queue serial
    completedLog,   \* the serials passed to RendererVk::onCompletedSerial, in order
    submitted,      \* GPU: the submissions made, in order, each [serial, prio]
    signaled,       \* GPU: serials whose fence is signaled
    presented,      \* GPU: the presents made, in order, each [swap, result]
    wpc,            \* the worker thread's position
    cur, epc, eres, error, waitSerial,  \* the task in execution
    ppc, ptask, pop, pmark,             \* the producers
    pswap,          \* the swapchain a caller of getLastAndClearPresentResult asks for
    nextId, faults, shutdownCalled,
    dispatchLog,    \* ids of the tasks popped by the worker, in order
    finished,       \* ids of the tasks whose handler has returned
    reclaimed,      \* what was destroyed or recycled, and how
    destroyAssert,  \* what the ASSERT of TaskProcessor::destroy saw
    initCount       \* calls of initTaskProcessor

vars == <<async, mTasks, mWorkerThreadIdle, mWorkerMutex, mInFlightCommandsMutex,
          idleWaiters, lastSubmitted, currentSerial, factoryNext,
          mInFlightCommands, mGarbageQueue, mErrors, delivered, workerError,
          mSwapchainStatus,
          mPrimaryCommandBuffer, lastCompleted, completedLog, submitted, signaled,
          presented,
          wpc, cur, epc, eres, error, waitSerial, ppc, ptask, pop, pmark, pswap,
          nextId, faults, shutdownCalled, dispatchLog, finished, reclaimed,
          destroyAssert, initCount>>

\* Variable groups, for UNCHANGED.
queueVars == <<mTasks, mWorkerThreadIdle, idleWaiters>>
serialVars == <<lastSubmitted, currentSerial, factoryNext>>
ledgerVars == <<mInFlightCommands, mGarbageQueue, lastCompleted, completedLog,
               reclaimed>>
errorVars == <<mErrors, delivered, workerError>>
gpuVars == <<submitted, signaled, presented>>
execVars == <<cur, epc, eres, error, waitSerial>>
prodVars == <<ppc, ptask, pop, pmark, pswap>>
histVars == <<dispatchLog, finished, destroyAssert, initCount>>

NoTask == [cmd |-> "Invalid", serial |-> 0, prio |-> 0, garbage |-> FALSE,
           swap |-> "none", id |-> 0]
Swapchains == {"swapA", "swapB"}

\* vk::Error {mErrorCode, mFile, mFunction, mLine}, as handleError builds it
\* (line 586); the model keeps the code and the function that failed.
Error(code, function) == [mErrorCode |-> code, mFunction |-> function]
NoError == Error("VK_SUCCESS", "none")

Min(a, b) == IF a <= b THEN a ELSE b
SeqRange(s) == {s[i] : i \in 1..Len(s)}
Serials(s) == [i \in 1..Len(s) |-> s[i].serial]

\* The thread that runs processTask: the worker, or in sync mode the producer
\* that is inside queueCommand.
Executor ==
    IF async THEN Worker
    ELSE IF \E p \in Producers : ppc[p] = "qc_exec"
         THEN CHOOSE p \in Producers : ppc[p] = "qc_exec"
         ELSE NoThread

\* The vk::Context whose handleError the failing call invokes: the worker passes
\* `this` (line 713), shutdown and CheckCompletedCommands pass `this` (lines 880,
\* 831); other sync-mode callers pass their own context.
HandlerContext(task) ==
    IF async \/ task.cmd \in {"Exit", "CheckCompletedCommands"} THEN "this" ELSE "ext"

Init ==
    /\ async \in BOOLEAN
    /\ mTasks = <<>>
    /\ mWorkerThreadIdle = FALSE
    /\ mWorkerMutex = NoThread
    /\ mInFlightCommandsMutex = NoThread
    /\ idleWaiters = {}
    /\ lastSubmitted = 1
    /\ currentSerial = 2
    /\ factoryNext = 3
    /\ mInFlightCommands = <<>>
    /\ mGarbageQueue = <<>>
    /\ mErrors = <<>>
    /\ delivered = <<>>
    /\ workerError = NoError
    /\ mSwapchainStatus = [s \in Swapchains |-> "none"]
    /\ mPrimaryCommandBuffer = IF async THEN "invalid" ELSE "recording"
    /\ lastCompleted = 0
    /\ completedLog = <<>>
    /\ submitted = <<>>
    /\ signaled = {}
    /\ presented = <<>>
    /\ wpc = IF async THEN "init" ELSE "absent"
    /\ cur = NoTask
    /\ epc = "none"
    /\ eres = "Continue"
    /\ error = NoError
    /\ waitSerial = 0
    /\ ppc = [p \in Producers |-> "idle"]
    /\ ptask = [p \in Producers |-> NoTask]
    /\ pop = [p \in Producers |-> "none"]
    /\ pmark = [p \in Producers |-> 0]
    /\ pswap = [p \in Producers |-> "none"]
    /\ nextId = 1
    /\ faults = 0
    /\ shutdownCalled = FALSE
    /\ dispatchLog = <<>>
    /\ finished = {}
    /\ reclaimed = {}
    /\ destroyAssert = "none"
    /\ initCount = IF async THEN 0 ELSE 1

-----------------------------------------------------------------------------
(* The facade: queueCommand and the operations built on it.                *)

\* Number of queueCommand calls made (shutdown's Exit is not counted).
Started == (nextId - 1) + Cardinality({p \in Producers : ppc[p] = "qc_push"})

MayStart(p) == ppc[p] = "idle" /\ ~shutdownCalled /\ Started < MaxTasks

NewTask(cmd, serial, prio, garbage, swap) ==
    [cmd |-> cmd, serial |-> serial, prio |-> prio, garbage |-> garbage,
     swap |-> swap, id |-> 0]

\* The tasks a producer context hands to queueCommand (the init* constructors).
\* The main context uses the whole facade; the other contexts only submit.
SubmitTasks ==
    {NewTask("FlushAndQueueSubmit", 0, pr, g, "none") : pr \in Priorities, g \in BOOLEAN}
    \cup {NewTask("OneOffQueueSubmit", 0, pr, FALSE, "none") : pr \in Priorities}

ClientTasks(p) ==
    IF p = MainContext
    THEN SubmitTasks
         \cup {NewTask("Present", 0, 0, FALSE, sw) : sw \in Swapchains}
         \cup {NewTask("ProcessCommands", 0, 0, FALSE, "none"),
               NewTask("CheckCompletedCommands", 0, 0, FALSE, "none")}
    ELSE SubmitTasks

\* Where the facade operation `op` goes on after queueCommand has returned.
AfterQueueCommand(op) ==
    IF async
    THEN (IF op = "queue" THEN "idle" ELSE "wfc_lock")
    ELSE (CASE op = "finish" -> "fts_ret"
            [] op = "shutdown" -> "joined"
            [] OTHER -> "idle")

\* finishToSerial, lines 441-450: the index of the first batch whose serial is
\* at least `serial`, or of the last batch when there is none.
FinishBatchIndex(list, serial) ==
    IF \E i \in 1..Len(list) : list[i].serial >= serial
    THEN CHOOSE i \in 1..Len(list) :
            /\ list[i].serial >= serial
            /\ \A j \in 1..(i - 1) : list[j].serial < serial
    ELSE Len(list)

\* TaskProcessor::finishToSerial, lines 431-453, for `list` in flight: nothing
\* to wait for when the list is empty (0); else the serial of the batch whose
\* fence it waits for, the in-flight mutex released.
FinishToSerialTarget(list, serial) ==
    IF list = <<>> THEN 0 ELSE list[FinishBatchIndex(list, serial)].serial

\* A finishToSerial that does not unlock the in-flight mutex before the fence
\* wait (line 453 left out).  Used to show that the waits being made without
\* the mutex rests on that unlock.
ProcessTaskStartKeepsInFlightLock(task, thread) ==
    CASE task.cmd \in {"Exit", "FinishToSerial"} ->
             LET serial == IF task.cmd = "Exit" THEN Infinite ELSE task.serial
                 target == FinishToSerialTarget(mInFlightCommands, serial)
             IN /\ waitSerial' = target
                /\ epc' = IF target # 0 THEN "fence_wait"
                          ELSE IF task.cmd = "Exit" THEN "destroy" ELSE "ret"
                /\ mInFlightCommandsMutex' =
                       IF target # 0 THEN thread ELSE mInFlightCommandsMutex
      [] task.cmd \in SubmitCmds ->
             /\ epc' = "vkQueueSubmit"
             /\ UNCHANGED <<waitSerial, mInFlightCommandsMutex>>
      [] task.cmd = "Present" ->
             /\ epc' = "vkQueuePresentKHR"
             /\ UNCHANGED <<waitSerial, mInFlightCommandsMutex>>
      [] task.cmd = "ProcessCommands" ->
             /\ epc' = "ret"
             /\ UNCHANGED <<waitSerial, mInFlightCommandsMutex>>
      [] task.cmd = "CheckCompletedCommands" ->
             /\ epc' = "sweep"
             /\ mInFlightCommandsMutex' = thread
             /\ UNCHANGED waitSerial

\* processTask, lines 731-833, entered by `thread` for `task`: the handler up
\* to its first Vulkan call, or to its return when it makes none.
ProcessTaskStart(task, thread) ==
    CASE task.cmd \in {"Exit", "FinishToSerial"} ->
             LET serial == IF task.cmd = "Exit" THEN Infinite ELSE task.serial
                 target == FinishToSerialTarget(mInFlightCommands, serial)
             IN /\ waitSerial' = target
                /\ epc' = IF target # 0 THEN "fence_wait"
                          ELSE IF task.cmd = "Exit" THEN "destroy" ELSE "ret"
                /\ UNCHANGED mInFlightCommandsMutex
      [] task.cmd \in SubmitCmds ->
             /\ epc' = "vkQueueSubmit"
             /\ UNCHANGED <<waitSerial, mInFlightCommandsMutex>>
      [] task.cmd = "Present" ->
             /\ epc' = "vkQueuePresentKHR"
             /\ UNCHANGED <<waitSerial, mInFlightCommandsMutex>>
      [] task.cmd = "ProcessCommands" ->
             /\ epc' = "ret"
             /\ UNCHANGED <<waitSerial, mInFlightCommandsMutex>>
      [] task.cmd = "CheckCompletedCommands" ->
             /\ epc' = "sweep"
             /\ mInFlightCommandsMutex' = thread
             /\ UNCHANGED waitSerial

\* queueCommand without the lock of line 622: the serial is taken whoever holds
\* the worker mutex.  Used to show that the submit order rests on that lock.
QcSerialWithoutWorkerMutex(p, t, op) ==
    /\ mWorkerMutex' = p
    /\ ptask' = [ptask EXCEPT ![p] = [t EXCEPT !.serial = currentSerial]]
    /\ lastSubmitted' = currentSerial
    /\ currentSerial' = factoryNext
    /\ factoryNext' = factoryNext + 1
    /\ pop' = [pop EXCEPT ![p] = op]
    /\ ppc' = [ppc EXCEPT ![p] = "qc_push"]
    /\ UNCHANGED <<mTasks, nextId, cur, epc, waitSerial, mInFlightCommandsMutex,
                   dispatchLog>>

\* queueCommand without line 632: no new current serial is generated.  Used to
\* show that the order of the in-flight serials rests on that line.
QcSerialWithoutGenerate(p, t, op) ==
    /\ mWorkerMutex = NoThread
    /\ mWorkerMutex' = p
    /\ ptask' = [ptask EXCEPT ![p] = [t EXCEPT !.serial = currentSerial]]
    /\ lastSubmitted' = currentSerial
    /\ UNCHANGED <<currentSerial, factoryNext>>
    /\ pop' = [pop EXCEPT ![p] = op]
    /\ ppc' = [ppc EXCEPT ![p] = "qc_push"]
    /\ UNCHANGED <<mTasks, nextId, cur, epc, waitSerial, mInFlightCommandsMutex,
                   dispatchLog>>

\* queueCommand with lines 631 and 632 exchanged: the new current serial is
\* generated first and then copied to the last submitted serial.  Used to show
\* that the distance of the two serials rests on the order of those lines.
QcSerialGenerateFirst(p, t, op) ==
    /\ mWorkerMutex = NoThread
    /\ mWorkerMutex' = p
    /\ ptask' = [ptask EXCEPT ![p] = [t EXCEPT !.serial = currentSerial]]
    /\ lastSubmitted' = factoryNext
    /\ currentSerial' = factoryNext
    /\ factoryNext' = factoryNext + 1
    /\ pop' = [pop EXCEPT ![p] = op]
    /\ ppc' = [ppc EXCEPT ![p] = "qc_push"]
    /\ UNCHANGED <<mTasks, nextId, cur, epc, waitSerial, mInFlightCommandsMutex,
                   dispatchLog>>

\* queueCommand, lines 622-635, for a submit task: with the worker mutex taken
\* (line 622), and under mCommandProcessorQueueSerialMutex, the task takes the
\* current serial and a new current serial is generated.
QcSerial(p, t, op) ==
    /\ mWorkerMutex = NoThread
    /\ mWorkerMutex' = p
    /\ ptask' = [ptask EXCEPT ![p] = [t EXCEPT !.serial = currentSerial]]
    /\ lastSubmitted' = currentSerial
    /\ currentSerial' = factoryNext
    /\ factoryNext' = factoryNext + 1
    /\ pop' = [pop EXCEPT ![p] = op]
    /\ ppc' = [ppc EXCEPT ![p] = "qc_push"]
    /\ UNCHANGED <<mTasks, nextId, cur, epc, waitSerial, mInFlightCommandsMutex,
                   dispatchLog>>

\* queueCommand, lines 637-652, with the worker mutex held: async pushes the
\* task, notifies the worker and returns (releasing the mutex); sync runs
\* processTask inline, the mutex still held.
QcPush(p, t, op) ==
    /\ nextId' = nextId + 1
    /\ ptask' = [ptask EXCEPT ![p] = NoTask]
    /\ IF async
       THEN /\ mTasks' = Append(mTasks, [t EXCEPT !.id = nextId])
            /\ mWorkerMutex' = NoThread
            /\ ppc' = [ppc EXCEPT ![p] = AfterQueueCommand(op)]
            /\ pop' = [pop EXCEPT ![p] = IF AfterQueueCommand(op) = "idle"
                                         THEN "none" ELSE op]
            /\ UNCHANGED <<cur, epc, waitSerial, mInFlightCommandsMutex, dispatchLog>>
       ELSE /\ cur' = [t EXCEPT !.id = nextId]
            /\ ProcessTaskStart(t, p)
            /\ dispatchLog' = Append(dispatchLog, nextId)
            /\ mWorkerMutex' = p
            /\ ppc' = [ppc EXCEPT ![p] = "qc_exec"]
            /\ pop' = [pop EXCEPT ![p] = op]
            /\ UNCHANGED mTasks

\* CommandProcessor::queueCommand(context, task), lines 617-653, up to the point
\* where the task has its serial (a submit task) or is in the queue or in
\* execution (any other task).
QueueCommand(p, t, op) ==
    IF t.cmd \in SubmitCmds
    THEN QcSerial(p, t, op)
    ELSE /\ mWorkerMutex = NoThread
         /\ QcPush(p, t, op)
         /\ UNCHANGED serialVars

\* A context calls queueCommand(context, task), or checkCompletedCommands().
CallQueueCommand(p) ==
    /\ MayStart(p)
    /\ \E t \in ClientTasks(p) : QueueCommand(p, t, "queue")
    /\ UNCHANGED <<async, pswap, mWorkerThreadIdle, idleWaiters,
                   ledgerVars, errorVars, mSwapchainStatus, mPrimaryCommandBuffer,
                   gpuVars, wpc, eres, error, pmark, faults,
                   shutdownCalled, finished, destroyAssert, initCount>>

\* queueCommand goes on for a submit task that has its serial.
QueueCommandPush(p) ==
    /\ ppc[p] = "qc_push"
    /\ QcPush(p, ptask[p], pop[p])
    /\ UNCHANGED <<async, pswap, mWorkerThreadIdle, idleWaiters,
                   serialVars, ledgerVars, errorVars, mSwapchainStatus,
                   mPrimaryCommandBuffer, gpuVars, wpc, eres, error,
                   pmark, faults, shutdownCalled, finished, destroyAssert,
                   initCount>>

\* CommandProcessor::finishToSerial(context, serial), finishAllWork(context),
\* lines 919-932 and 947-952.
CallFinishToSerial(p) ==
    /\ p = MainContext
    /\ MayStart(p)
    /\ \E s \in (2..lastSubmitted) \cup {Infinite} :
          /\ QueueCommand(p, NewTask("FinishToSerial", s, 0, FALSE, "none"), "finish")
          /\ pmark' = [pmark EXCEPT ![p] = Min(s, lastSubmitted)]
    /\ UNCHANGED <<async, pswap, mWorkerThreadIdle, idleWaiters,
                   ledgerVars, errorVars, mSwapchainStatus, mPrimaryCommandBuffer,
                   gpuVars, wpc, eres, error, faults, shutdownCalled,
                   finished, destroyAssert, initCount>>

\* CommandProcessor::shutdown, lines 876-881: called once, when no other thread
\* is inside the processor; no producer starts a queueCommand afterwards.
CallShutdown(p) ==
    /\ p = MainContext
    /\ ~shutdownCalled
    /\ \A q \in Producers : ppc[q] \in {"idle", "returned"}
    /\ shutdownCalled' = TRUE
    /\ QueueCommand(p, NewTask("Exit", 0, 0, FALSE, "none"), "shutdown")
    /\ UNCHANGED <<async, pswap, mWorkerThreadIdle, idleWaiters,
                   ledgerVars, errorVars, mSwapchainStatus, mPrimaryCommandBuffer,
                   gpuVars, wpc, eres, error, pmark, faults,
                   finished, destroyAssert, initCount>>

\* queueCommand, lines 644-652 (sync): processTask has returned; its result is
\* ignored and the lock_guard releases the worker mutex.
QcReturn(p) ==
    /\ ppc[p] = "qc_exec"
    /\ epc = "ret"
    /\ finished' = finished \cup {cur.id}
    /\ cur' = NoTask
    /\ epc' = "none"
    /\ eres' = "Continue"
    /\ error' = NoError
    /\ waitSerial' = 0
    /\ mWorkerMutex' = NoThread
    /\ ppc' = [ppc EXCEPT ![p] = AfterQueueCommand(pop[p])]
    /\ pop' = [pop EXCEPT ![p] = IF AfterQueueCommand(pop[p]) = "idle"
                                 THEN "none" ELSE pop[p]]
    /\ UNCHANGED <<async, pswap, queueVars, mInFlightCommandsMutex, serialVars, ledgerVars,
                   errorVars, mSwapchainStatus, mPrimaryCommandBuffer, gpuVars, wpc,
                   ptask, pmark, nextId, faults, shutdownCalled, dispatchLog,
                   destroyAssert, initCount>>

\* The wait predicate without mWorkerThreadIdle.  Used to show that
\* waitForWorkComplete rests on the worker's idle flag.
QueueEmptyPredicate == mTasks = <<>>

\* The predicate of the waits on mWorkerIdleCondition (lines 854, 899, 940).
WorkerIdlePredicate == mTasks = <<>> /\ mWorkerThreadIdle

\* waitForWorkComplete line 853-854, getLastSubmittedFence lines 896-900 and
\* handleDeviceLost lines 937-941: lock the worker mutex and wait on
\* mWorkerIdleCondition (the latter two: only in async mode).  A thread whose
\* predicate is false releases the mutex and sleeps until it is notified.
WaitIdleEnter(p) ==
    /\ ppc[p] = "wfc_lock"
    /\ mWorkerMutex = NoThread
    /\ IF WorkerIdlePredicate \/ (pop[p] \in {"hdl", "fence"} /\ ~async)
       THEN /\ mWorkerMutex' = p
            /\ ppc' = [ppc EXCEPT ![p] = "wfc_held"]
            /\ UNCHANGED idleWaiters
       ELSE /\ idleWaiters' = idleWaiters \cup {p}
            /\ ppc' = [ppc EXCEPT ![p] = "wfc_wait"]
            /\ UNCHANGED mWorkerMutex
    /\ UNCHANGED <<async, pswap, mTasks, mWorkerThreadIdle, mInFlightCommandsMutex, serialVars,
                   ledgerVars, errorVars, mSwapchainStatus, mPrimaryCommandBuffer,
                   gpuVars, wpc, execVars, ptask, pop, pmark, nextId, faults,
                   shutdownCalled, histVars>>

\* A notified waiter re-acquires the mutex and evaluates the predicate again.
WaitIdleWake(p) ==
    /\ ppc[p] = "wfc_wait"
    /\ p \notin idleWaiters
    /\ mWorkerMutex = NoThread
    /\ IF WorkerIdlePredicate
       THEN /\ mWorkerMutex' = p
            /\ ppc' = [ppc EXCEPT ![p] = "wfc_held"]
            /\ UNCHANGED idleWaiters
       ELSE /\ idleWaiters' = idleWaiters \cup {p}
            /\ UNCHANGED <<mWorkerMutex, ppc>>
    /\ UNCHANGED <<async, pswap, mTasks, mWorkerThreadIdle, mInFlightCommandsMutex, serialVars,
                   ledgerVars, errorVars, mSwapchainStatus, mPrimaryCommandBuffer,
                   gpuVars, wpc, execVars, ptask, pop, pmark, nextId, faults,
                   shutdownCalled, histVars>>

\* A getAndClearPendingError that returns mErrors.back().  Used to show that
\* the order of delivery rests on line 611.
BackError(q) == IF q = <<>> THEN NoError ELSE q[Len(q)]

\* getAndClearPendingError, lines 608-614: the record it returns, VK_SUCCESS
\* when the queue is empty, else mErrors.front().
FrontError(q) == IF q = <<>> THEN NoError ELSE Head(q)

\* getAndClearPendingError, lines 609-613: the queue it leaves.
PopError(q) == IF q = <<>> THEN q ELSE Tail(q)

\* CommandProcessor::getAndClearPendingError (lines 605-615), called by a
\* context; an error it returns is the context's to handle.
GetAndClearPendingError(p) ==
    /\ p = MainContext
    /\ ppc[p] = "idle"
    /\ workerError' = FrontError(mErrors)
    /\ mErrors' = PopError(mErrors)
    /\ delivered' = IF FrontError(mErrors).mErrorCode = "VK_SUCCESS"
                    THEN delivered ELSE Append(delivered, FrontError(mErrors))
    /\ UNCHANGED <<async, queueVars, mWorkerMutex, mInFlightCommandsMutex, serialVars,
                   ledgerVars, mSwapchainStatus, mPrimaryCommandBuffer, gpuVars, wpc,
                   execVars, prodVars, nextId, faults, shutdownCalled, histVars>>

\* waitForWorkComplete, lines 863-871: while hasPendingError(), take the next
\* error with getAndClearPendingError and hand it to the context.  The state
\* after the loop, from queue q with `out` handed over and `last` returned last.
RECURSIVE SyncErrors(_, _, _)
SyncErrors(q, out, last) ==
    IF q = <<>>
    THEN [mErrors |-> q, delivered |-> out, workerError |-> last]
    ELSE SyncErrors(PopError(q),
                    IF FrontError(q).mErrorCode = "VK_SUCCESS"
                    THEN out ELSE Append(out, FrontError(q)),
                    FrontError(q))

\* waitForWorkComplete, lines 857-872: with a context, the pending errors are
\* handed to it; shutdown passes nullptr.  The unique_lock is released on return.
WaitForWorkCompleteReturn(p) ==
    /\ ppc[p] = "wfc_held"
    /\ pop[p] \in {"finish", "shutdown"}
    /\ LET after == IF pop[p] = "finish"
                    THEN SyncErrors(mErrors, delivered, workerError)
                    ELSE [mErrors |-> mErrors, delivered |-> delivered,
                          workerError |-> workerError]
       IN /\ mErrors' = after.mErrors
          /\ delivered' = after.delivered
          /\ workerError' = after.workerError
    /\ mWorkerMutex' = NoThread
    /\ ppc' = [ppc EXCEPT ![p] = IF pop[p] = "finish" THEN "fts_ret" ELSE "join"]
    /\ UNCHANGED <<async, pswap, queueVars, mInFlightCommandsMutex, serialVars, ledgerVars,
                   mSwapchainStatus, mPrimaryCommandBuffer, gpuVars, wpc, execVars,
                   ptask, pop, pmark, nextId, faults, shutdownCalled, histVars>>

\* CommandProcessor::finishToSerial returns to its caller (line 932).
FinishToSerialReturn(p) ==
    /\ ppc[p] = "fts_ret"
    /\ ppc' = [ppc EXCEPT ![p] = "idle"]
    /\ pop' = [pop EXCEPT ![p] = "none"]
    /\ pmark' = [pmark EXCEPT ![p] = 0]
    /\ UNCHANGED <<async, pswap, queueVars, mWorkerMutex, mInFlightCommandsMutex, serialVars,
                   ledgerVars, errorVars, mSwapchainStatus, mPrimaryCommandBuffer,
                   gpuVars, wpc, execVars, ptask, nextId, faults,
                   shutdownCalled, histVars>>

\* shutdown, lines 884-887: commandProcessorThread->join().
ShutdownJoin(p) ==
    /\ ppc[p] = "join"
    /\ wpc = "done"
    /\ ppc' = [ppc EXCEPT ![p] = "joined"]
    /\ UNCHANGED <<async, pswap, queueVars, mWorkerMutex, mInFlightCommandsMutex, serialVars,
                   ledgerVars, errorVars, mSwapchainStatus, mPrimaryCommandBuffer,
                   gpuVars, wpc, execVars, ptask, pop, pmark, nextId, faults,
                   shutdownCalled, histVars>>

\* CommandProcessor::getLastSubmittedSerial, lines 906-910: the value a call
\* returns in the current state.  The read is under
\* mCommandProcessorQueueSerialMutex, as is the write in queueCommand, so a call
\* sees the value of one state and changes nothing.
GetLastSubmittedSerial == lastSubmitted

\* CommandProcessor::getCurrentQueueSerial, lines 912-916.
GetCurrentQueueSerial == currentSerial

\* A context reports device loss: CommandProcessor::handleDeviceLost().
CallHandleDeviceLost(p) ==
    /\ p = MainContext
    /\ ppc[p] = "idle"
    /\ ~shutdownCalled
    /\ faults < MaxFaults
    /\ faults' = faults + 1
    /\ pop' = [pop EXCEPT ![p] = "hdl"]
    /\ ppc' = [ppc EXCEPT ![p] = "wfc_lock"]
    /\ UNCHANGED <<async, pswap, queueVars, mWorkerMutex, mInFlightCommandsMutex, serialVars,
                   ledgerVars, errorVars, mSwapchainStatus, mPrimaryCommandBuffer,
                   gpuVars, wpc, execVars, ptask, pmark, nextId, shutdownCalled,
                   histVars>>

\* What TaskProcessor::handleDeviceLost adds to the record of reclamations: every
\* in-flight batch is destroyed after a wait on its fence, whatever the wait
\* returned, and onCompletedSerial is not called.
DeviceLostReclaims ==
    {[serial |-> mInFlightCommands[i].serial, kind |-> "batch", via |-> "deviceLost",
      completed |-> mInFlightCommands[i].serial <= lastCompleted]
        : i \in 1..Len(mInFlightCommands)}

\* handleDeviceLost, line 944: TaskProcessor::handleDeviceLost (lines 394-417),
\* run by the calling thread with the worker mutex held.  It takes the in-flight
\* mutex (line 399) and, when batches are in flight, waits on their fences
\* (line 405, position "hdl_fences"); with an empty list it returns at once.
HandleDeviceLostRun(p) ==
    /\ ppc[p] = "wfc_held"
    /\ pop[p] = "hdl"
    /\ mInFlightCommandsMutex = NoThread
    /\ IF mInFlightCommands # <<>>
       THEN /\ mInFlightCommandsMutex' = p
            /\ ppc' = [ppc EXCEPT ![p] = "hdl_fences"]
            /\ UNCHANGED <<mWorkerMutex, pop>>
       ELSE /\ mWorkerMutex' = NoThread
            /\ ppc' = [ppc EXCEPT ![p] = "idle"]
            /\ pop' = [pop EXCEPT ![p] = "none"]
            /\ UNCHANGED mInFlightCommandsMutex
    /\ UNCHANGED <<async, pswap, queueVars, serialVars, ledgerVars,
                   errorVars, mSwapchainStatus, mPrimaryCommandBuffer,
                   gpuVars, wpc, execVars, ptask, pmark, nextId, faults,
                   shutdownCalled, histVars>>

\* TaskProcessor::handleDeviceLost, lines 401-417: the fence waits are over,
\* whatever they returned; every batch is destroyed and the list cleared.  Both
\* mutexes are released on return.
HandleDeviceLostClear(p) ==
    /\ ppc[p] = "hdl_fences"
    /\ reclaimed' = reclaimed \cup DeviceLostReclaims
    /\ mInFlightCommands' = <<>>
    /\ mInFlightCommandsMutex' = NoThread
    /\ mWorkerMutex' = NoThread
    /\ ppc' = [ppc EXCEPT ![p] = "idle"]
    /\ pop' = [pop EXCEPT ![p] = "none"]
    /\ UNCHANGED <<async, pswap, queueVars, serialVars, mGarbageQueue,
                   lastCompleted, completedLog, errorVars, mSwapchainStatus,
                   mPrimaryCommandBuffer, gpuVars, wpc, execVars, ptask, pmark,
                   nextId, faults, shutdownCalled, histVars>>

\* A context other than the main one calls getLastSubmittedFence(context)
\* (line 893), at any time before shutdown has returned.  It is the last call
\* that context makes (position "returned" afterwards).
CallGetLastSubmittedFence(p) ==
    /\ p # MainContext
    /\ ppc[p] = "idle"
    /\ ppc[MainContext] # "joined"
    /\ pop' = [pop EXCEPT ![p] = "fence"]
    /\ ppc' = [ppc EXCEPT ![p] = "wfc_lock"]
    /\ UNCHANGED <<async, pswap, queueVars, mWorkerMutex, mInFlightCommandsMutex, serialVars,
                   ledgerVars, errorVars, mSwapchainStatus, mPrimaryCommandBuffer,
                   gpuVars, wpc, execVars, ptask, pmark, nextId, faults,
                   shutdownCalled, histVars>>

\* getLastSubmittedFence, line 903: past the wait, with the worker mutex held,
\* getLastSubmittedFenceWithLock (lines 527-538) takes the in-flight mutex and
\* copies the fence of the last batch; both mutexes are released on return.
GetLastSubmittedFenceReturn(p) ==
    /\ ppc[p] = "wfc_held"
    /\ pop[p] = "fence"
    /\ mInFlightCommandsMutex = NoThread
    /\ mWorkerMutex' = NoThread
    /\ ppc' = [ppc EXCEPT ![p] = "returned"]
    /\ pop' = [pop EXCEPT ![p] = "none"]
    /\ UNCHANGED <<async, pswap, queueVars, mInFlightCommandsMutex, serialVars,
                   ledgerVars, errorVars, mSwapchainStatus, mPrimaryCommandBuffer,
                   gpuVars, wpc, execVars, ptask, pmark, nextId, faults,
                   shutdownCalled, histVars>>

\* A consumer thread calls getLastAndClearPresentResult(swapchain).
CallGetLastAndClearPresentResult(p) ==
    /\ p = MainContext
    /\ ppc[p] = "idle"
    /\ \E sw \in Swapchains : pswap' = [pswap EXCEPT ![p] = sw]
    /\ ppc' = [ppc EXCEPT ![p] = "get_result"]
    /\ UNCHANGED <<async, queueVars, mWorkerMutex, mInFlightCommandsMutex, serialVars,
                   ledgerVars, errorVars, mSwapchainStatus, mPrimaryCommandBuffer,
                   gpuVars, wpc, execVars, ptask, pop, pmark, nextId, faults,
                   shutdownCalled, histVars>>

\* TaskProcessor::getLastAndClearPresentResult, lines 276-289: under
\* mSwapchainStatusMutex, wait until the map has an entry for the swapchain
\* (lines 279-285), read it (line 286), erase it (line 287) and return it.
GetLastAndClearPresentResult(p) ==
    /\ ppc[p] = "get_result"
    /\ mSwapchainStatus[pswap[p]] # "none"
    /\ mSwapchainStatus' = [mSwapchainStatus EXCEPT ![pswap[p]] = "none"]
    /\ ppc' = [ppc EXCEPT ![p] = "idle"]
    /\ pswap' = [pswap EXCEPT ![p] = "none"]
    /\ UNCHANGED <<async, queueVars, mWorkerMutex, mInFlightCommandsMutex, serialVars,
                   ledgerVars, errorVars, mPrimaryCommandBuffer, gpuVars, wpc, execVars,
                   ptask, pop, pmark, nextId, faults, shutdownCalled, histVars>>

-----------------------------------------------------------------------------
(* The worker thread: processTasks and processTasksImpl.                   *)

\* initTaskProcessor, lines 655-669: open the primary pool, allocate and begin
\* the primary command buffer.
InitTaskProcessor ==
    /\ wpc = "init"
    /\ initCount' = initCount + 1
    /\ mPrimaryCommandBuffer' = "recording"
    /\ wpc' = "top"
    /\ UNCHANGED <<async, queueVars, mWorkerMutex, mInFlightCommandsMutex, serialVars,
                   ledgerVars, errorVars, mSwapchainStatus, gpuVars, execVars, prodVars,
                   nextId, faults, shutdownCalled, dispatchLog, finished,
                   destroyAssert>>

\* A pop from the back of the queue.  Used to show that the dispatch order
\* rests on mTasks being a FIFO queue.
PopTaskFromBack ==
    /\ cur' = mTasks[Len(mTasks)]
    /\ ProcessTaskStart(mTasks[Len(mTasks)], Worker)
    /\ mTasks' = SubSeq(mTasks, 1, Len(mTasks) - 1)
    /\ dispatchLog' = Append(dispatchLog, mTasks[Len(mTasks)].id)
    /\ mWorkerThreadIdle' = FALSE
    /\ wpc' = "exec"

\* processTasksImpl, lines 708-713: move the front task out of the queue and
\* call processTask for it.
PopTask ==
    /\ cur' = Head(mTasks)
    /\ ProcessTaskStart(Head(mTasks), Worker)
    /\ mTasks' = Tail(mTasks)
    /\ dispatchLog' = Append(dispatchLog, Head(mTasks).id)
    /\ mWorkerThreadIdle' = FALSE
    /\ wpc' = "exec"

\* A worker that does not unlock the worker mutex before processTask (line 711
\* left out).  Used to show that the mutex being free during the worker's GPU
\* calls rests on that unlock.
WorkerTopKeepsMutex ==
    /\ wpc = "top"
    /\ mWorkerMutex = NoThread
    /\ IF mTasks = <<>>
       THEN /\ mWorkerThreadIdle' = TRUE
            /\ idleWaiters' = {}
            /\ wpc' = "wait"
            /\ UNCHANGED <<mTasks, cur, epc, waitSerial, mInFlightCommandsMutex,
                           dispatchLog, mWorkerMutex>>
       ELSE /\ PopTask
            /\ mWorkerMutex' = Worker
            /\ UNCHANGED idleWaiters
    /\ UNCHANGED <<async, serialVars, ledgerVars,
                   errorVars, mSwapchainStatus, mPrimaryCommandBuffer, gpuVars, eres,
                   error, prodVars, nextId, faults, shutdownCalled,
                   finished, destroyAssert, initCount>>

\* processTasksImpl, lines 700-711: with the worker mutex, either go idle
\* (notify_all on mWorkerIdleCondition, then wait for work) or pop a task.
WorkerTop ==
    /\ wpc = "top"
    /\ mWorkerMutex = NoThread
    /\ IF mTasks = <<>>
       THEN /\ mWorkerThreadIdle' = TRUE
            /\ idleWaiters' = {}
            /\ wpc' = "wait"
            /\ UNCHANGED <<mTasks, cur, epc, waitSerial, mInFlightCommandsMutex,
                           dispatchLog>>
       ELSE /\ PopTask
            /\ UNCHANGED idleWaiters
    /\ UNCHANGED <<async, mWorkerMutex, serialVars, ledgerVars,
                   errorVars, mSwapchainStatus, mPrimaryCommandBuffer, gpuVars, eres,
                   error, prodVars, nextId, faults, shutdownCalled,
                   finished, destroyAssert, initCount>>

\* processTasksImpl, line 706: mWorkAvailableCondition.wait returns once the
\* queue is not empty.
WorkerWake ==
    /\ wpc = "wait"
    /\ mTasks # <<>>
    /\ mWorkerMutex = NoThread
    /\ PopTask
    /\ UNCHANGED <<async, idleWaiters, mWorkerMutex, serialVars,
                   ledgerVars, errorVars, mSwapchainStatus, mPrimaryCommandBuffer,
                   gpuVars, eres, error, prodVars, nextId, faults,
                   shutdownCalled, finished, destroyAssert, initCount>>

\* A worker that leaves its thread when processTask returns an error.  Used to
\* show that the dispatch of the later tasks rests on the loop of processTasks.
WorkerTaskReturnLeavesOnError ==
    /\ wpc = "exec"
    /\ epc = "ret"
    /\ finished' = finished \cup {cur.id}
    /\ wpc' = IF eres # "Continue" THEN "done"
              ELSE IF cur.cmd = "Exit" THEN "exit_lock" ELSE "top"
    /\ cur' = NoTask
    /\ epc' = "none"
    /\ eres' = "Continue"
    /\ error' = NoError
    /\ waitSerial' = 0
    /\ UNCHANGED <<async, queueVars, mWorkerMutex, mInFlightCommandsMutex, serialVars,
                   ledgerVars, errorVars, mSwapchainStatus, mPrimaryCommandBuffer,
                   gpuVars, prodVars, nextId, faults,
                   shutdownCalled, dispatchLog, destroyAssert, initCount>>

\* processTasksImpl line 713 and processTasks lines 677-690: processTask has
\* returned.  An error leaves processTasksImpl; processTasks (UNREACHABLE()
\* compiled out) calls it again, which runs initTaskProcessor again.
WorkerTaskReturn ==
    /\ wpc = "exec"
    /\ epc = "ret"
    /\ finished' = finished \cup {cur.id}
    /\ wpc' = IF eres # "Continue" THEN "init"
              ELSE IF cur.cmd = "Exit" THEN "exit_lock" ELSE "top"
    /\ cur' = NoTask
    /\ epc' = "none"
    /\ eres' = "Continue"
    /\ error' = NoError
    /\ waitSerial' = 0
    /\ UNCHANGED <<async, queueVars, mWorkerMutex, mInFlightCommandsMutex, serialVars,
                   ledgerVars, errorVars, mSwapchainStatus, mPrimaryCommandBuffer,
                   gpuVars, prodVars, nextId, faults,
                   shutdownCalled, dispatchLog, destroyAssert, initCount>>

\* processTasksImpl, lines 714-722: after Exit, set idle under the worker mutex,
\* notify one waiter and leave the thread.
WorkerExit ==
    /\ wpc = "exit_lock"
    /\ mWorkerMutex = NoThread
    /\ mWorkerThreadIdle' = TRUE
    /\ \/ idleWaiters = {} /\ UNCHANGED idleWaiters
       \/ \E t \in idleWaiters : idleWaiters' = idleWaiters \ {t}
    /\ wpc' = "done"
    /\ UNCHANGED <<async, mTasks, mWorkerMutex, mInFlightCommandsMutex, serialVars,
                   ledgerVars, errorVars, mSwapchainStatus, mPrimaryCommandBuffer,
                   gpuVars, execVars, prodVars, nextId, faults,
                   shutdownCalled, histVars>>

-----------------------------------------------------------------------------
(* The task handlers: processTask and the TaskProcessor.                   *)

MaxOf(S, dflt) == IF S = {} THEN dflt ELSE CHOOSE x \in S : \A y \in S : y <= x

\* CommandProcessor::handleError, lines 568-588, called by the failing
\* ANGLE_VK_TRY in `function`, which then returns `res`.  On
\* VK_ERROR_DEVICE_LOST it first calls CommandProcessor::handleDeviceLost (line
\* 582, position "hdl_lock"); the error is recorded after that call (lines
\* 585-587).  A context other than the processor (sync mode) handles its error
\* outside this file.
HandleError(code, function, res) ==
    /\ error' = Error(code, function)
    /\ eres' = res
    /\ IF HandlerContext(cur) = "this"
       THEN IF code = "VK_ERROR_DEVICE_LOST"
            THEN epc' = "hdl_lock" /\ UNCHANGED mErrors
            ELSE epc' = "ret" /\ mErrors' = Append(mErrors, Error(code, function))
       ELSE epc' = "ret" /\ UNCHANGED mErrors

\* Whether the failing call leaves the in-flight mutex to its lock_guard.
Returns(code) == ~(HandlerContext(cur) = "this" /\ code = "VK_ERROR_DEVICE_LOST")

\* processTask, line 746: mPrimaryCommandBuffer.end() fails.  The buffer keeps
\* its handle but is no longer in the recording state.
FlushEndFails ==
    /\ epc = "vkQueueSubmit"
    /\ cur.cmd = "FlushAndQueueSubmit"
    /\ faults < MaxFaults
    /\ faults' = faults + 1
    /\ HandleError("VK_ERROR_OUT_OF_HOST_MEMORY", "processTask", "Stop")
    /\ mPrimaryCommandBuffer' = "ended"
    /\ UNCHANGED <<async, delivered, workerError, queueVars, mWorkerMutex, mInFlightCommandsMutex, serialVars,
                   ledgerVars, mSwapchainStatus, gpuVars, wpc,
                   cur, waitSerial, prodVars, nextId, shutdownCalled, histVars>>

NewBatch(task) == [serial |-> task.serial, prio |-> task.prio, recycled |-> FALSE]

\* TaskProcessor::queueSubmit (lines 540-560) succeeds.  For FlushAndQueueSubmit
\* this is inside submitFrame (lines 493-510), after the primary buffer was
\* ended (line 746): the garbage is queued, the batch takes the primary buffer
\* and is appended under the in-flight mutex.  For
\* OneOffQueueSubmit (lines 791-794) no batch is made.
QueueSubmit ==
    /\ epc = "vkQueueSubmit"
    /\ submitted' = Append(submitted, [serial |-> cur.serial, prio |-> cur.prio])
    /\ mInFlightCommandsMutex' = Executor
    /\ epc' = "sweep"
    /\ IF cur.cmd = "FlushAndQueueSubmit"
       THEN /\ mGarbageQueue' = IF cur.garbage THEN Append(mGarbageQueue, cur.serial)
                                ELSE mGarbageQueue
            /\ mInFlightCommands' = Append(mInFlightCommands, NewBatch(cur))
            /\ mPrimaryCommandBuffer' = "invalid"
       ELSE UNCHANGED <<mGarbageQueue, mInFlightCommands, mPrimaryCommandBuffer>>
    /\ UNCHANGED <<async, queueVars, mWorkerMutex, serialVars, lastCompleted, completedLog,
                   reclaimed,
                   errorVars, mSwapchainStatus, signaled, presented, wpc, cur, eres,
                   error, waitSerial, prodVars, nextId, faults, shutdownCalled,
                   histVars>>

\* queueSubmit, line 556: vkQueueSubmit returns an error.  In submitFrame (line
\* 498) the primary buffer, ended at line 746, has not yet been moved into the
\* batch (line 507): the processor keeps it, ended.
QueueSubmitFails ==
    /\ epc = "vkQueueSubmit"
    /\ faults < MaxFaults
    /\ faults' = faults + 1
    /\ \E code \in SubmitErrors : HandleError(code, "queueSubmit", "Stop")
    /\ mPrimaryCommandBuffer' = IF cur.cmd = "FlushAndQueueSubmit"
                                THEN "ended" ELSE mPrimaryCommandBuffer
    /\ UNCHANGED <<async, delivered, workerError, queueVars, mWorkerMutex, mInFlightCommandsMutex, serialVars,
                   ledgerVars, mSwapchainStatus, gpuVars, wpc,
                   cur, waitSerial, prodVars, nextId, shutdownCalled, histVars>>

\* Fence status as checkCompletedCommandsNoLock reads it (line 301).  The fence
\* of a batch already recycled by a sweep that returned early has been reset:
\* reading it is undefined, so either answer is possible.
CanBeReady(b) == b.recycled \/ b.serial \in signaled
CanBeNotReady(b) == b.recycled \/ b.serial \notin signaled

\* The numbers of leading batches a sweep may find finished (lines 297-316).
ReadyPrefixes ==
    {k \in 0..Len(mInFlightCommands) : \A i \in 1..k : CanBeReady(mInFlightCommands[i])}

\* The walk ends after k batches: at the end of the list or at a fence that is
\* VK_NOT_READY (lines 302-305).
SweepStopsAfter(k) ==
    IF k = Len(mInFlightCommands) THEN TRUE
    ELSE CanBeNotReady(mInFlightCommands[k + 1])

\* A sweep that recycles without calling onCompletedSerial (line 308).  Used to
\* show that the reclamation bound rests on that call.
CompletedAfterWithoutOnCompleted(k) == lastCompleted

\* RendererVk::onCompletedSerial for the first k batches, then
\* getLastCompletedQueueSerial (line 324).
CompletedAfter(k) ==
    MaxOf({lastCompleted} \cup {mInFlightCommands[i].serial : i \in 1..k}, 0)

\* The calls of onCompletedSerial (line 308) of a walk over the first k batches.
OnCompletedSerialCalls(k) == [i \in 1..k |-> mInFlightCommands[i].serial]

\* A sweep that frees only the garbage whose serial is smaller than the last
\* completed serial (< for <= at line 330).  Used to show that the garbage queue
\* following the in-flight list rests on that comparison.
GarbageFreeCountBelow(lc) ==
    CHOOSE n \in 0..Len(mGarbageQueue) :
        /\ \A i \in 1..n : mGarbageQueue[i] < lc
        /\ IF n = Len(mGarbageQueue) THEN TRUE ELSE mGarbageQueue[n + 1] >= lc

\* checkCompletedCommandsNoLock, lines 326-341: the number of leading garbage
\* entries whose serial is no larger than lastCompleted `lc`.
GarbageFreeCount(lc) ==
    CHOOSE n \in 0..Len(mGarbageQueue) :
        /\ \A i \in 1..n : mGarbageQueue[i] <= lc
        /\ IF n = Len(mGarbageQueue) THEN TRUE ELSE mGarbageQueue[n + 1] > lc

SweepReclaims(k, n, lc) ==
    {[serial |-> mInFlightCommands[i].serial, kind |-> "batch", via |-> "sweep",
      completed |-> mInFlightCommands[i].serial <= lc] : i \in 1..k}
    \cup {[serial |-> mGarbageQueue[i], kind |-> "garbage", via |-> "sweep",
           completed |-> mGarbageQueue[i] <= lc] : i \in 1..n}

\* submitFrame without the throttle of lines 516-522.  Used to show that the
\* size of the in-flight list rests on it.
AfterSweepWithoutThrottle(list) ==
    IF cur.cmd = "Exit" THEN "destroy" ELSE "ret"

\* Where the handler goes on after a sweep that succeeded, given the list it left.
AfterSweep(list) ==
    IF epc = "sweep" /\ cur.cmd = "FlushAndQueueSubmit"
                    /\ Len(list) > kInFlightCommandsLimit
    THEN "fence_wait"
    ELSE IF cur.cmd = "Exit" THEN "destroy" ELSE "ret"

\* processTask, lines 764-775: once submitFrame has returned Continue, the
\* handler of FlushAndQueueSubmit allocates and begins the next primary buffer.
AllocatePrimary(next) ==
    IF cur.cmd = "FlushAndQueueSubmit" /\ next = "ret"
    THEN "recording" ELSE mPrimaryCommandBuffer

\* submitFrame, lines 516-519: the serial the throttle finishes to.
ThrottleSerial(list) == list[(Len(list) - kInFlightCommandsLimit) + 1].serial

\* The sweep may start: the handler holds the in-flight mutex (submitFrame line
\* 509, lockAndCheckCompletedCommands line 271), or finishToSerial's fence wait
\* (line 457) returns VK_SUCCESS and lockAndCheckCompletedCommands (line 460)
\* takes the mutex.
SweepStarts == epc = "sweep" \/ (epc = "fence_wait" /\ waitSerial \in signaled)

\* TaskProcessor::checkCompletedCommandsNoLock, lines 291-350, with the in-flight
\* mutex held: retire the finished prefix, free the garbage it completes.  In
\* submitFrame the throttle follows (lines 516-522): finishToSerial up to the
\* batch it is to wait for.
CheckCompletedCommands ==
    /\ SweepStarts
    /\ \E k \in ReadyPrefixes :
         /\ SweepStopsAfter(k)
         /\ LET lc == CompletedAfter(k)
                n == GarbageFreeCount(lc)
                list == SubSeq(mInFlightCommands, k + 1, Len(mInFlightCommands))
            IN /\ lastCompleted' = lc
               /\ completedLog' = completedLog \o OnCompletedSerialCalls(k)
               /\ reclaimed' = reclaimed \cup SweepReclaims(k, n, lc)
               /\ mInFlightCommands' = list
               /\ mGarbageQueue' = SubSeq(mGarbageQueue, n + 1, Len(mGarbageQueue))
               /\ epc' = AfterSweep(list)
               /\ mPrimaryCommandBuffer' = AllocatePrimary(AfterSweep(list))
               /\ waitSerial' = IF AfterSweep(list) = "fence_wait"
                                THEN FinishToSerialTarget(list, ThrottleSerial(list))
                                ELSE waitSerial
    /\ eres' = "Continue"
    /\ mInFlightCommandsMutex' = NoThread
    /\ UNCHANGED <<async, queueVars, mWorkerMutex, serialVars, errorVars,
                   mSwapchainStatus, gpuVars, wpc, cur, error,
                   prodVars, nextId, faults, shutdownCalled, histVars>>

MarkRecycled(list, k) ==
    [i \in 1..Len(list) |-> IF i <= k THEN [list[i] EXCEPT !.recycled = TRUE] ELSE list[i]]

\* checkCompletedCommandsNoLock, line 306: getStatus returns an error for the
\* batch after k finished ones; the function returns before line 318, so the k
\* batches already recycled stay in the list.
CheckCompletedCommandsFails ==
    /\ SweepStarts
    /\ faults < MaxFaults
    /\ faults' = faults + 1
    /\ \E k \in ReadyPrefixes, code \in SubmitErrors :
         /\ k < Len(mInFlightCommands)
         /\ lastCompleted' = CompletedAfter(k)
         /\ completedLog' = completedLog \o OnCompletedSerialCalls(k)
         /\ reclaimed' = reclaimed \cup SweepReclaims(k, 0, CompletedAfter(k))
         /\ mInFlightCommands' = MarkRecycled(mInFlightCommands, k)
         /\ HandleError(code, "checkCompletedCommandsNoLock", "Stop")
         /\ mInFlightCommandsMutex' = IF Returns(code) THEN NoThread ELSE Executor
    /\ UNCHANGED <<async, delivered, workerError, queueVars, mWorkerMutex, serialVars, mGarbageQueue,
                   mSwapchainStatus, mPrimaryCommandBuffer, gpuVars, wpc, cur,
                   waitSerial, prodVars, nextId, shutdownCalled, histVars>>

\* finishToSerial, line 457: the fence wait times out or reports device loss.
FenceWaitFails ==
    /\ epc = "fence_wait"
    /\ faults < MaxFaults
    /\ faults' = faults + 1
    /\ \E code \in WaitErrors :
         /\ code = "VK_TIMEOUT" => waitSerial \notin signaled
         /\ HandleError(code, "finishToSerial", "Stop")
    /\ UNCHANGED <<async, delivered, workerError, queueVars, mWorkerMutex, mInFlightCommandsMutex, serialVars,
                   ledgerVars, mSwapchainStatus, mPrimaryCommandBuffer, gpuVars, wpc,
                   cur, waitSerial, prodVars, nextId, shutdownCalled, histVars>>

\* handleError line 582: CommandProcessor::handleDeviceLost (lines 934-945) run
\* by the thread that executes the failing task.  It locks the worker mutex
\* (line 937), which in sync mode that thread already owns through queueCommand's
\* lock_guard; in async mode it then waits on mWorkerIdleCondition until
\* mTasks.empty() && mWorkerThreadIdle (line 940, position "hdl_wait"), a
\* condition only the worker signals (lines 704, 720).  Past the wait comes
\* TaskProcessor::handleDeviceLost (line 944), which takes the in-flight mutex,
\* and then the error is recorded (lines 585-587).
HandleErrorDeviceLost ==
    /\ epc = "hdl_lock"
    /\ mWorkerMutex = NoThread
    /\ IF async /\ ~WorkerIdlePredicate
       THEN /\ epc' = "hdl_wait"
            /\ UNCHANGED <<mInFlightCommands, reclaimed, mErrors>>
       ELSE /\ mInFlightCommandsMutex = NoThread
            /\ reclaimed' = reclaimed \cup DeviceLostReclaims
            /\ mInFlightCommands' = <<>>
            /\ mErrors' = Append(mErrors, error)
            /\ epc' = "ret"
    /\ UNCHANGED <<async, delivered, workerError, queueVars, mWorkerMutex, mInFlightCommandsMutex, serialVars,
                   mGarbageQueue, lastCompleted, completedLog, mSwapchainStatus,
                   mPrimaryCommandBuffer, gpuVars, wpc, cur, eres, error, waitSerial,
                   prodVars, nextId, faults, shutdownCalled, histVars>>

PresentFatal(r) ==
    r \notin {"VK_SUCCESS", "VK_SUBOPTIMAL_KHR", "VK_ERROR_OUT_OF_DATE_KHR"}

\* A present that leaves a status not yet read in place (emplace instead of
\* operator[]).  Used to show that the status read rests on line 472.
StoreSwapchainStatusIfAbsent(swap, r) ==
    IF mSwapchainStatus[swap] = "none"
    THEN [mSwapchainStatus EXCEPT ![swap] = r]
    ELSE mSwapchainStatus

\* A present that replaces the whole map by the one new entry.  Used to show
\* that the entries of the other swapchains rest on line 472.
StoreOnlySwapchainStatus(swap, r) ==
    [sw \in Swapchains |-> IF sw = swap THEN r ELSE "none"]

\* TaskProcessor::present, line 472: mSwapchainStatus[swapchain] = result.
StoreSwapchainStatus(swap, r) == [mSwapchainStatus EXCEPT ![swap] = r]

\* TaskProcessor::present (lines 463-477) and processTask lines 804-818: the
\* result is stored for the swapchain; a result that is neither success nor
\* OUT_OF_DATE / SUBOPTIMAL goes to handleError, and the handler breaks.
Present ==
    /\ epc = "vkQueuePresentKHR"
    /\ \E r \in PresentResults :
         /\ presented' = Append(presented, [swap |-> cur.swap, result |-> r])
         /\ mSwapchainStatus' = StoreSwapchainStatus(cur.swap, r)
         /\ IF PresentFatal(r)
            THEN /\ faults < MaxFaults
                 /\ faults' = faults + 1
                 /\ HandleError(r, "processTask", "Continue")
            ELSE /\ epc' = "ret"
                 /\ eres' = "Continue"
                 /\ UNCHANGED <<faults, error, mErrors>>
    /\ UNCHANGED <<async, delivered, workerError, queueVars, mWorkerMutex, mInFlightCommandsMutex, serialVars,
                   ledgerVars, mPrimaryCommandBuffer, submitted, signaled, wpc, cur,
                   waitSerial, prodVars, nextId, shutdownCalled, histVars>>

\* processTask, lines 737-739: TaskProcessor::destroy (lines 252-256) and the
\* destruction of the command pool and the primary buffer.
TaskProcessorDestroy ==
    /\ epc = "destroy"
    /\ destroyAssert' = IF mInFlightCommands = <<>> /\ mGarbageQueue = <<>>
                        THEN "held" ELSE "failed"
    /\ mPrimaryCommandBuffer' = "invalid"
    /\ epc' = "ret"
    /\ eres' = "Continue"
    /\ UNCHANGED <<async, queueVars, mWorkerMutex, mInFlightCommandsMutex, serialVars,
                   ledgerVars, errorVars, mSwapchainStatus, gpuVars, wpc, cur, error,
                   waitSerial, prodVars, nextId, faults, shutdownCalled, dispatchLog,
                   finished, initCount>>

-----------------------------------------------------------------------------
(* The GPU.                                                                *)

\* The fence of a submission signals once every earlier submission to the same
\* queue (the same priority) has signaled; queues run independently.
GpuSignal ==
    /\ \E i \in 1..Len(submitted) :
         /\ submitted[i].serial \notin signaled
         /\ \A j \in 1..(i - 1) :
               submitted[j].prio = submitted[i].prio => submitted[j].serial \in signaled
         /\ signaled' = signaled \cup {submitted[i].serial}
    /\ UNCHANGED <<async, queueVars, mWorkerMutex, mInFlightCommandsMutex, serialVars,
                   ledgerVars, errorVars, mSwapchainStatus, mPrimaryCommandBuffer,
                   submitted, presented, wpc, execVars, prodVars, nextId, faults,
                   shutdownCalled, histVars>>

-----------------------------------------------------------------------------
ProducerStep(p) ==
    \/ CallQueueCommand(p)
    \/ CallFinishToSerial(p)
    \/ CallShutdown(p)
    \/ CallHandleDeviceLost(p)
    \/ QueueCommandPush(p)
    \/ QcReturn(p)
    \/ WaitIdleEnter(p)
    \/ WaitIdleWake(p)
    \/ WaitForWorkCompleteReturn(p)
    \/ FinishToSerialReturn(p)
    \/ ShutdownJoin(p)
    \/ HandleDeviceLostRun(p)
    \/ HandleDeviceLostClear(p)
    \/ CallGetLastSubmittedFence(p)
    \/ GetLastSubmittedFenceReturn(p)
    \/ CallGetLastAndClearPresentResult(p)
    \/ GetLastAndClearPresentResult(p)
    \/ GetAndClearPendingError(p)

WorkerStep ==
    \/ InitTaskProcessor
    \/ WorkerTop
    \/ WorkerWake
    \/ WorkerTaskReturn
    \/ WorkerExit

HandlerStep ==
    \/ QueueSubmit
    \/ CheckCompletedCommands
    \/ HandleErrorDeviceLost
    \/ Present
    \/ TaskProcessorDestroy

FaultStep ==
    \/ FlushEndFails
    \/ QueueSubmitFails
    \/ CheckCompletedCommandsFails
    \/ FenceWaitFails

Next ==
    \/ \E p \in Producers : ProducerStep(p)
    \/ WorkerStep
    \/ HandlerStep
    \/ FaultStep
    \/ GpuSignal

Spec == Init /\ [][Next]_vars
-----------------------------------------------------------------------------
(* Properties.                                                             *)

StrictlyIncreasing(s) == \A i, j \in 1..Len(s) : i < j => s[i] < s[j]
IsSubmit(t) == t.cmd \in SubmitCmds
\* Every submission so far went to the queue of priority 0.
OneQueue == \A i \in 1..Len(submitted) : submitted[i].prio = 0

\* The serial of the task in execution, while its GPU submit is still to come.
PendingSubmitSerial ==
    IF IsSubmit(cur) /\ epc = "vkQueueSubmit" THEN <<cur.serial>> ELSE <<>>

\* C1: submit tasks get their serials in the order in which they enter the task
\* queue, and reach the GPU in that order: the serials of the submissions made,
\* then of the submit task in execution, then of the submit tasks in the queue
\* from front to back, are strictly increasing.
C1_SubmitSerialOrder ==
    StrictlyIncreasing(Serials(submitted) \o PendingSubmitSerial
                       \o Serials(SelectSeq(mTasks, IsSubmit)))

\* Two submit tasks have gone through the task queue to the GPU.
C1_Witness == async /\ Len(submitted) = 2 /\ Len(dispatchLog) = 2

\* C2: after shutdown is called in async mode the worker leaves its loop and
\* join returns, whatever errors were reported.  As a property of finite runs:
\* when shutdown has been called, either it has returned or some thread can
\* still take a step.  (The handler blocked in handleDeviceLost is left to C3.)
C2_ShutdownTerminates ==
    (async /\ shutdownCalled /\ epc \notin {"hdl_lock", "hdl_wait"})
        => (ppc[MainContext] = "joined" \/ ENABLED Next)

\* C3: when vkQueueSubmit reports VK_ERROR_DEVICE_LOST to the processor, one
\* error is recorded, handleDeviceLost completes and the worker goes on.  A
\* consequence: the thread that handles the error is never left waiting on
\* mWorkerIdleCondition for the worker, itself, to become idle.
C3_DeviceLostOnSubmitHandled ==
    (error = Error("VK_ERROR_DEVICE_LOST", "queueSubmit")) => epc # "hdl_wait"

FlushReturns == cur.cmd = "FlushAndQueueSubmit" /\ epc = "ret"

C6_FinishToSerialCompletes ==
    \A p \in Producers :
        (ppc[p] = "fts_ret" /\ faults = 0) =>
            /\ \A s \in 2..pmark[p] : s \in signaled
            /\ \A i \in 1..Len(mInFlightCommands) : mInFlightCommands[i].serial > pmark[p]

\* C7: tasks are dispatched in the order they were enqueued, none twice and
\* none skipped, and a handler has returned before the next one starts: the
\* tasks dispatched are 1, 2, ... in order, every one but the last has
\* finished, and the queue holds the ones that follow, in order.
C7_FifoDispatch ==
    /\ dispatchLog = [i \in 1..Len(dispatchLog) |-> i]
    /\ \A i \in 1..(Len(dispatchLog) - 1) : dispatchLog[i] \in finished
    /\ finished \subseteq SeqRange(dispatchLog)
    /\ [i \in 1..Len(mTasks) |-> mTasks[i].id]
           = [i \in 1..Len(mTasks) |-> Len(dispatchLog) + i]

\* The worker has dispatched two tasks that were in the queue together.
C7_Witness == async /\ Len(dispatchLog) = 2 /\ finished = {1, 2}

\* C8: in async mode the wait on mWorkerIdleCondition ends only in a state
\* where the queue is empty and the worker executes nothing, with every task
\* enqueued so far finished.
C8_WaitForWorkComplete ==
    \A p \in Producers :
        (async /\ ppc[p] = "wfc_held") =>
            /\ mTasks = <<>>
            /\ cur = NoTask
            /\ wpc \in {"wait", "done"}
            /\ 1..(nextId - 1) \subseteq finished

\* finishToSerial's wait ends, after the FinishToSerial task and a task before it.
C8_Witness ==
    /\ async
    /\ ppc[MainContext] = "wfc_held"
    /\ pop[MainContext] = "finish"
    /\ nextId = 3

\* C9: after shutdown has completed, the in-flight list and the garbage queue
\* are empty and the assertion of TaskProcessor::destroy held.  Stated for runs
\* whose submissions all went to one queue and in which the Exit task reached
\* TaskProcessor::destroy.
C9_ShutdownLeavesNothing ==
    (ppc[MainContext] = "joined" /\ OneQueue /\ destroyAssert # "none") =>
        /\ mInFlightCommands = <<>>
        /\ mGarbageQueue = <<>>
        /\ destroyAssert = "held"

\* C10: the value getLastSubmittedSerial returns never decreases from one state
\* to the next, and the serials of the in-flight batches are strictly
\* increasing from head to tail.
C10_SerialMonotonicity ==
    /\ [](StrictlyIncreasing(Serials(mInFlightCommands)))
    /\ [][GetLastSubmittedSerial' >= GetLastSubmittedSerial]_vars

\* Two batches are in flight and getLastSubmittedSerial has advanced twice.
C10_Witness == Len(mInFlightCommands) = 2 /\ GetLastSubmittedSerial = 3

\* vkQueueSubmit has failed in the task in execution with a result other than
\* device loss.
SubmitErrorInHandler ==
    /\ async
    /\ error.mFunction = "queueSubmit"
    /\ error.mErrorCode # "VK_ERROR_DEVICE_LOST"

\* Such a failure has been recorded: its record is in the error queue or has
\* been handed to a context already.
SubmitErrorRecorded ==
    \E i \in 1..Len(delivered \o mErrors) :
        /\ (delivered \o mErrors)[i].mFunction = "queueSubmit"
        /\ (delivered \o mErrors)[i].mErrorCode # "VK_ERROR_DEVICE_LOST"

\* Nothing is pushed to the error queue in this step (a context may pop).
NoErrorPushed ==
    \E k \in 0..Len(mErrors) : mErrors' = SubSeq(mErrors, k + 1, Len(mErrors))

\* The thread that executes a task is inside CommandProcessor::handleDeviceLost.
InHandleDeviceLost == epc \in {"hdl_lock", "hdl_wait"}

C12_FenceWaitTimeoutIsDeviceLoss ==
    (/\ HandlerContext(cur) = "this"
     /\ error = Error("VK_TIMEOUT", "finishToSerial")
     /\ epc = "ret")
        => (/\ mInFlightCommands = <<>>
            /\ Len(mErrors) > 0
            /\ mErrors[Len(mErrors)] = error)

\* The worker's Present handler gets the result of vkQueuePresentKHR.
PresentCompletes ==
    async /\ cur.cmd = "Present" /\ epc = "vkQueuePresentKHR" /\ epc' # epc

\* C13: for a Present task in async mode, a result of VK_SUCCESS,
\* VK_SUBOPTIMAL_KHR or VK_ERROR_OUT_OF_DATE_KHR adds no record to mErrors, any
\* other result adds exactly one record, with that result; and whatever the
\* result, VK_ERROR_DEVICE_LOST included, the handler goes to its return with
\* angle::Result::Continue, so that the worker is back in its loop.
C13_PresentResultHandled ==
    [][PresentCompletes =>
        /\ IF PresentFatal(mSwapchainStatus'[cur.swap])
           THEN mErrors' = Append(mErrors, Error(mSwapchainStatus'[cur.swap], "processTask"))
           ELSE mErrors' = mErrors
        /\ epc' = "ret"
        /\ eres' = "Continue"]_vars

\* The result of the most recent vkQueuePresentKHR for swapchain sw, "none"
\* when there was no present for it.
LastPresentResult(sw) ==
    LET idx == {i \in 1..Len(presented) : presented[i].swap = sw}
    IN IF idx = {} THEN "none" ELSE presented[MaxOf(idx, 0)].result

\* The call of getLastAndClearPresentResult by p returns on this step.
PresentResultReturns(p) == ppc[p] = "get_result" /\ ppc'[p] = "idle"

\* C14: getLastAndClearPresentResult(X) returns only from a state in which the
\* map has an entry for X; the value it returns is the result of the most
\* recent Present dispatched for X; the entry is erased on return; and an entry
\* for X appears only by a Present for X, so that a second call with no
\* Present for X in between finds no entry and blocks.
C14_PresentResultReadOnce ==
    /\ [][\A p \in Producers : PresentResultReturns(p) =>
            /\ mSwapchainStatus[pswap[p]] # "none"
            /\ mSwapchainStatus[pswap[p]] = LastPresentResult(pswap[p])
            /\ mSwapchainStatus'[pswap[p]] = "none"]_vars
    /\ [][\A sw \in Swapchains :
            (mSwapchainStatus[sw] = "none" /\ mSwapchainStatus'[sw] # "none") =>
                /\ presented' = Append(presented, [swap |-> sw,
                                                   result |-> mSwapchainStatus'[sw]])]_vars

\* A first call for swapA has returned the result of a Present for swapA, and a
\* second call for swapA is blocked: the entry is gone.
C14_Witness ==
    /\ ppc[MainContext] = "get_result"
    /\ pswap[MainContext] = "swapA"
    /\ LastPresentResult("swapA") = "VK_SUBOPTIMAL_KHR"
    /\ mSwapchainStatus["swapA"] = "none"

\* Every task handed to queueCommand so far has been executed to its handler's
\* return; in sync mode this is so whenever queueCommand is not in progress.
ScriptExecuted == 1..(nextId - 1) \subseteq finished

\* C15: the side effects of a producer script are the same in async mode as in
\* sync mode.  In sync mode every task has run to its handler's return, with
\* all its side effects, when queueCommand returns; so in either mode, once
\* no thread can take a step any more, every task of the script has been
\* executed.  (Sync-mode runs that end inside a handler run with the processor
\* as its context are left aside.)
C15_SyncAsyncEquivalence ==
    (~ENABLED Next /\ (async \/ HandlerContext(cur) = "ext")) => ScriptExecuted

\* The same statement for sync mode alone.
C15_SyncModeExecutesScript ==
    (~ENABLED Next /\ ~async /\ HandlerContext(cur) = "ext") => ScriptExecuted

\* C16: in async mode the length of the task queue stays under a bound that
\* does not depend on how many calls of queueCommand the producers make: the
\* queue never holds all MaxTasks tasks that the producers issue in a run,
\* because a producer is held back or the worker has consumed a task before.
C16_TaskQueueBounded == async => Len(mTasks) < MaxTasks

\* waitForWorkComplete(context), with a context, returns to finishToSerial.
ErrorsSynced(p) == ppc[p] = "wfc_held" /\ pop[p] = "finish" /\ ppc'[p] = "fts_ret"

\* C17: errors are delivered first-in first-out, each exactly once.  Every step
\* leaves mErrors and the errors delivered alone, or appends a record at the
\* back of mErrors, or delivers from the front (what was delivered followed by
\* what is pending stays the same sequence); a call that delivers returns the
\* record it delivers; getAndClearPendingError on an empty mErrors returns a
\* record with code VK_SUCCESS; and waitForWorkComplete with a context leaves
\* mErrors empty.
C17_ErrorsDeliveredInOrder ==
    /\ [][\/ UNCHANGED <<mErrors, delivered>>
          \/ /\ delivered' = delivered
             /\ Len(mErrors') = Len(mErrors) + 1
             /\ SubSeq(mErrors', 1, Len(mErrors)) = mErrors
          \/ /\ Len(delivered') > Len(delivered)
             /\ delivered' \o mErrors' = delivered \o mErrors
             /\ workerError' = delivered'[Len(delivered')]]_vars
    /\ [][(mErrors = <<>> /\ workerError' # workerError)
            => workerError'.mErrorCode = "VK_SUCCESS"]_vars
    /\ [][\A p \in Producers : ErrorsSynced(p) => mErrors' = <<>>]_vars

\* Two different errors were recorded and then delivered one by one, and a
\* further getAndClearPendingError has found the queue empty.
C17_Witness ==
    /\ Len(delivered) = 2
    /\ delivered[1] # delivered[2]
    /\ ppc[MainContext] = "idle"
    /\ mErrors = <<>>
    /\ workerError = NoError

\* queueCommand gives a submit task its serial on this step (lines 627-634).
SubmitTaskTakesSerial == \E p \in Producers : ppc[p] # "qc_push" /\ ppc'[p] = "qc_push"

\* C18: in every state (the serial mutex is held only inside a step)
\* getLastSubmittedSerial() = getCurrentQueueSerial() - 1; a queueCommand for a
\* submit task advances both by exactly one, and no other step changes either.
C18_SerialsOneApart ==
    /\ [](GetLastSubmittedSerial = GetCurrentQueueSerial - 1)
    /\ [][IF SubmitTaskTakesSerial
          THEN /\ GetLastSubmittedSerial' = GetLastSubmittedSerial + 1
               /\ GetCurrentQueueSerial' = GetCurrentQueueSerial + 1
          ELSE /\ GetLastSubmittedSerial' = GetLastSubmittedSerial
               /\ GetCurrentQueueSerial' = GetCurrentQueueSerial]_vars

\* One submit task and one other task have gone through queueCommand.
C18_Witness ==
    /\ GetLastSubmittedSerial = 2
    /\ GetCurrentQueueSerial = 3
    /\ nextId = 3
    /\ \A p \in Producers : ppc[p] = "idle"

\* vkQueuePresentKHR has been called on this step.
PresentDispatched == Len(presented') = Len(presented) + 1

\* C19: a Present for swapchain X, whatever its result, leaves the entry, or
\* the absence of an entry, of every other swapchain Y as it was, and with it
\* whether getLastAndClearPresentResult(Y) can return and what it returns.
C19_PresentIsolation ==
    [][PresentDispatched =>
        \A sw \in Swapchains \ {presented'[Len(presented')].swap} :
            mSwapchainStatus'[sw] = mSwapchainStatus[sw]]_vars

\* A Present for swapA has failed while the result of an earlier Present for
\* swapB was waiting to be read; it is still there.
C19_Witness ==
    /\ Len(presented) = 2
    /\ presented[1].swap = "swapB"
    /\ presented[2] = [swap |-> "swapA", result |-> "VK_ERROR_SURFACE_LOST_KHR"]
    /\ mSwapchainStatus["swapB"] = presented[1].result
    /\ mSwapchainStatus["swapA"] = "VK_ERROR_SURFACE_LOST_KHR"

\* The thread that executes the failing task is about to lock mWorkerMutex in
\* CommandProcessor::handleDeviceLost (line 937), called by handleError.
LocksWorkerMutexInHandleError == epc = "hdl_lock"

\* C20: mutex acquisition is cycle-free: no thread acquires another mutex while
\* it holds the in-flight mutex, and no thread tries to acquire a mutex it
\* already holds, the error path through handleError and handleDeviceLost
\* included.  So the thread about to lock the worker mutex in handleDeviceLost
\* holds neither the in-flight mutex nor the worker mutex.
C20_MutexAcquisitionCycleFree ==
    LocksWorkerMutexInHandleError =>
        (mInFlightCommandsMutex # Executor /\ mWorkerMutex # Executor)

\* A task that records into or ends the primary command buffer (processTask
\* lines 746 and 823) starts being dispatched in this step.
RecordingTaskDispatched ==
    /\ Len(dispatchLog') = Len(dispatchLog) + 1
    /\ cur'.cmd \in {"ProcessCommands", "FlushAndQueueSubmit"}

\* C21: whenever a ProcessCommands or FlushAndQueueSubmit task starts being
\* dispatched, in sync and in async mode, the primary command buffer is valid
\* and in the recording state, also after an earlier FlushAndQueueSubmit failed.
C21_PrimaryRecordingAtDispatch ==
    [][RecordingTaskDispatched => mPrimaryCommandBuffer = "recording"]_vars

\* A completion sweep (checkCompletedCommandsNoLock) returns Continue in this step.
SweepReturnsContinue == SweepStarts /\ epc' # epc /\ error' = error

\* The number of onCompletedSerial calls made in this step.
CompletedInStep == Len(completedLog') - Len(completedLog)

\* A sweep retires a prefix of the in-flight list: the batches it notifies and
\* erases are the leading ones, their fences are signaled, and the first batch
\* it leaves has a fence that is not signaled.
SweepRetiresPrefix ==
    SweepReturnsContinue =>
        /\ CompletedInStep \in 0..Len(mInFlightCommands)
        /\ completedLog' = completedLog \o OnCompletedSerialCalls(CompletedInStep)
        /\ mInFlightCommands' = SubSeq(mInFlightCommands, CompletedInStep + 1,
                                       Len(mInFlightCommands))
        /\ \A i \in 1..CompletedInStep : mInFlightCommands[i].serial \in signaled
        /\ mInFlightCommands' # <<>> => mInFlightCommands'[1].serial \notin signaled

\* onCompletedSerial has been called with strictly increasing serials.
CompletionsInOrder == StrictlyIncreasing(completedLog)

\* No garbage entry is still queued under a serial smaller than that of an
\* entry already destroyed.
GarbageFreedInOrder ==
    \A r \in reclaimed :
        r.kind = "garbage" =>
            \A i \in 1..Len(mGarbageQueue) : mGarbageQueue[i] > r.serial

\* C22: a completion sweep retires only a prefix of the in-flight list, stopping
\* at the first fence that is not ready even if later fences are signaled;
\* onCompletedSerial is called in strictly increasing serial order over the
\* whole execution, and garbage of an earlier serial is destroyed no later than
\* garbage of a later serial.
C22_SweepRetiresPrefixInOrder ==
    /\ [][SweepRetiresPrefix]_vars
    /\ []CompletionsInOrder
    /\ []GarbageFreedInOrder

\* The thread that executes the task is at a GPU call of the handler: queue
\* submit (line 556), present (line 467), the fence status queries of the sweep
\* (line 301) or the fence wait of finishToSerial (line 457).
GpuCallInProgress ==
    epc \in {"vkQueueSubmit", "vkQueuePresentKHR", "sweep", "fence_wait"}

\* Thread p is in TaskProcessor::handleDeviceLost, waiting on the fences of the
\* batches in flight (line 405).
DeviceLostFenceWaits(p) == ppc[p] = "hdl_fences"

\* C23, as stated: the worker mutex is never held by the thread that has a GPU
\* call in progress (queue submit, present, fence status query, fence wait), in
\* sync mode as well as in async mode and on the device-loss path.
C23_WorkerMutexNeverAcrossGpuCalls ==
    /\ GpuCallInProgress => mWorkerMutex # Executor
    /\ \A p \in Producers : DeviceLostFenceWaits(p) => mWorkerMutex # p

\* C23, amended: in async mode the worker thread never holds the worker mutex
\* while a GPU call of a task handler is in progress.  (In sync mode the caller
\* holds it throughout processTask, and CommandProcessor::handleDeviceLost holds
\* it across the fence waits of the cleanup.)
C23_WorkerThreadDropsMutex ==
    (async /\ GpuCallInProgress) => mWorkerMutex # Worker

\* The worker queries fence status in a sweep while a producer, inside
\* queueCommand, holds the worker mutex.
C23_Witness ==
    /\ async
    /\ epc = "sweep"
    /\ mWorkerMutex = "p2"
    /\ ppc["p2"] = "qc_push"

\* The thread that executes the task is in the blocking fence wait of
\* TaskProcessor::finishToSerial (line 457): for FinishToSerial, for Exit and
\* for the throttle of submitFrame.
BlockingFenceWait == epc = "fence_wait"

\* C24, as stated: no thread performs a blocking fence wait while it holds the
\* in-flight mutex, in finishToSerial, in the throttle, in the sweep and in the
\* device-loss cleanup.
C24_NoBlockingWaitUnderInFlightMutex ==
    /\ BlockingFenceWait => mInFlightCommandsMutex # Executor
    /\ \A p \in Producers : DeviceLostFenceWaits(p) => mInFlightCommandsMutex # p

\* C24, amended: outside the device-loss cleanup no blocking fence wait is made
\* with the in-flight mutex held: finishToSerial (for FinishToSerial, Exit and
\* the throttle) has released it when it waits, and the sweep makes no blocking
\* wait at all.  TaskProcessor::handleDeviceLost waits with the mutex held.
C24_FinishToSerialWaitsUnlocked ==
    BlockingFenceWait => mInFlightCommandsMutex # Executor

\* The throttle of submitFrame waits for a fence with two batches in flight and
\* the in-flight mutex free.
C24_Witness ==
    /\ BlockingFenceWait
    /\ cur.cmd = "FlushAndQueueSubmit"
    /\ Len(mInFlightCommands) = 2
    /\ mInFlightCommandsMutex = NoThread

\* C25: the worker performs its initialization (initTaskProcessor) exactly once
\* in its lifetime, before the first task, and never again, whatever tasks
\* succeed or fail afterwards.
C25_WorkerInitializesOnce ==
    async => (initCount <= 1 /\ (dispatchLog # <<>> => initCount = 1))

\* The number of onCompletedSerial calls made for serial s.
CompletedCalls(s) == Cardinality({i \in 1..Len(completedLog) : completedLog[i] = s})

\* C26: after any completion sweep has returned, with success or with an error
\* raised part-way through the walk, every batch still in the in-flight list
\* holds its fence, command pool and primary buffer untouched (a recycled batch
\* has been erased), and onCompletedSerial has been issued at most once per
\* serial.
C26_RecycledBatchesErased ==
    /\ \A i \in 1..Len(mInFlightCommands) : ~mInFlightCommands[i].recycled
    /\ \A i \in 1..Len(completedLog) : CompletedCalls(completedLog[i]) = 1

\* C27: every thread blocked on mWorkerIdleCondition (in waitForWorkComplete,
\* getLastSubmittedFence or handleDeviceLost) is released once the task queue
\* is empty and the worker is idle, also when several threads wait at once and
\* the worker becomes idle by dispatching Exit.  A sleeping thread is released
\* only by a notification, and the worker notifies only when it sets the idle
\* flag: so in every state where the queue is empty and the worker is idle, no
\* blocked thread is still without its notification.
C27_IdleWaitersReleased ==
    WorkerIdlePredicate => idleWaiters = {}

\* The worker is between tasks (no handler is running) and no failure has been
\* injected so far.
BetweenTasksNoError == cur = NoTask /\ faults = 0

\* C28: whenever the worker is between tasks and no error has occurred, every
\* entry of the garbage queue carries the serial of a batch still in the
\* in-flight list, garbage serials are non-decreasing along the queue, and the
\* garbage queue is empty whenever the in-flight list is empty.
C28_GarbageFollowsInFlight ==
    BetweenTasksNoError =>
        /\ \A i \in 1..Len(mGarbageQueue) :
              \E j \in 1..Len(mInFlightCommands) :
                  mInFlightCommands[j].serial = mGarbageQueue[i]
        /\ \A i, j \in 1..Len(mGarbageQueue) :
              i < j => mGarbageQueue[i] <= mGarbageQueue[j]
        /\ mInFlightCommands = <<>> => mGarbageQueue = <<>>

\* Two submits with garbage: the sweep of the second has retired the first
\* batch and freed its garbage; the second batch and its garbage remain.
C28_Witness ==
    /\ BetweenTasksNoError
    /\ mGarbageQueue = <<3>>
    /\ Serials(mInFlightCommands) = <<3>>
    /\ [serial |-> 2, kind |-> "garbage", via |-> "sweep", completed |-> TRUE]
           \in reclaimed
=============================================================================
